---------------------------- MODULE Spec2Model ----------------------------
(***************************************************************************)
(* A model of michel (src/michel/michel.py): the task tree, the org-mode   *)
(* text codec (parse_text_to_tree, TasksTree.__str__) and the merge engine *)
(* (treemerge, PartTree, disassemble_tree).                                *)
(*                                                                         *)
(* Strings are sequences of one-character strings, so that the regular     *)
(* expressions, str.strip, the escaping of '*' and the character sums of   *)
(* PartTree.hash_sum are computed as the code computes them.  A tree is an *)
(* arena: a sequence of node records, node 1 being the synthetic root, the *)
(* field subtasks holding the children's indices in order.                 *)
(***************************************************************************)
EXTENDS Integers, Sequences, FiniteSets, TLC

VARIABLES
    \* ---- the merge scenario (run_tests.py: two parses, then treemerge)
    org_text,       \* the text the local tree was parsed from
    remote_text,    \* the text the remote tree was parsed from
    tree_org,       \* treemerge's tree_org (mutated in place)
    tree_remote,    \* treemerge's tree_remote
    tasks_org,      \* treemerge's tasks_org: the local units not yet paired
    tasks_remote,   \* treemerge's tasks_remote: the remote units not yet paired
    mapping,        \* treemerge's mapping: <<remote unit, local unit, exact>>
    index_remote,   \* treemerge's index_remote (0-based, as in the code)
    step_i,         \* position of the for loops of the third and fourth step (0-based)
    shared_notes,   \* <<remote node, local node>> pairs whose notes are one list object
    pc,             \* where treemerge is
    round,          \* 1: first treemerge call, 2: the call repeated on a fresh remote tree
    org_before,     \* tree_org as it was when the current treemerge call started
    remote_before,  \* tree_remote as it was when the current treemerge call started
    org_after1,     \* tree_org when the first treemerge call returned
    \* ---- the codec scenario (parse, print, parse again)
    codec_text,     \* the text handed to parse_text_to_tree
    codec_pc,       \* "start", "parsed", "printed", "reparsed"
    codec_first,    \* outcome of parse_text_to_tree(codec_text)
    codec_out,      \* str(tree) of the first outcome
    codec_second,   \* outcome of parse_text_to_tree(codec_out)
    \* ---- the listing scenario (tasklist_to_tasktree)
    listing_input,  \* the listing tasklist_to_tasktree was called with
    tasklist,       \* tasklist_to_tasktree's tasklist: the items still to insert
    tasks_tree,     \* tasklist_to_tasktree's tasks_tree
    fail_count,     \* tasklist_to_tasktree's fail_count
    listing_pc,     \* "idle", "loop", "returned"
    \* ---- the closed-time scenario (InteractiveMergeConf)
    task_remote,    \* the remote task: [completed, closed_time]
    task_org,       \* the local task: [completed, closed_time]
    now,            \* what datetime.datetime.now() returns when it is called
    conf_pc,        \* "idle", "start", "completed", "closed"
    conf_completed, \* what merge_completed returned
    conf_closed     \* what merge_closed_time returned

merge_vars == <<org_text, remote_text, tree_org, tree_remote, tasks_org, tasks_remote,
                mapping, index_remote, step_i, shared_notes, pc, round,
                org_before, remote_before, org_after1>>
codec_vars == <<codec_text, codec_pc, codec_first, codec_out, codec_second>>
listing_vars == <<listing_input, tasklist, tasks_tree, fail_count, listing_pc>>
conf_vars == <<task_remote, task_org, now, conf_pc, conf_completed, conf_closed>>
vars == <<merge_vars, codec_vars, listing_vars, conf_vars>>

---------------------------------------------------------------------------
\* Characters and strings

NL == "\n"
Star == "*"
Space == " "

KwTODO == <<"T", "O", "D", "O">>
KwDONE == <<"D", "O", "N", "E">>
PREV_ORG_TITLE == <<"P", "R", "E", "V", "_", "O", "R", "G", "_", "T", "I", "T", "L", "E">>
REMOTE_APPEND_NOTE == <<"R", "E", "M", "O", "T", "E", "_", "A", "P", "P", "E", "N", "D", "_", "N", "O", "T", "E">>
MERGE_INFO_LINE == <<"M", "E", "R", "G", "E", "_", "I", "N", "F", "O", ":", " ", "p", "a", "r", "e", "n", "t", " ", "i", "s", " ", "n", "o", "t", " ", "e", "x", "i", "s", "t">>
ColonSpace == <<":", " ">>

\* Python's ord() on the characters the model uses
Ord(c) ==
    CASE c = "\n" -> 10
      [] c = " " -> 32 [] c = "*" -> 42 [] c = "." -> 46 [] c = ":" -> 58
      [] c = "A" -> 65 [] c = "D" -> 68 [] c = "E" -> 69 [] c = "F" -> 70
      [] c = "G" -> 71 [] c = "I" -> 73 [] c = "L" -> 76 [] c = "M" -> 77
      [] c = "N" -> 78 [] c = "O" -> 79 [] c = "P" -> 80 [] c = "R" -> 82
      [] c = "T" -> 84 [] c = "V" -> 86 [] c = "_" -> 95 [] c = "a" -> 97
      [] c = "b" -> 98 [] c = "e" -> 101 [] c = "i" -> 105 [] c = "n" -> 110
      [] c = "o" -> 111 [] c = "p" -> 112 [] c = "r" -> 114 [] c = "s" -> 115
      [] c = "t" -> 116 [] c = "x" -> 120

Max2(x, y) == IF x > y THEN x ELSE y
MinOf(S) == CHOOSE x \in S : \A y \in S : x <= y
MaxOf(S) == CHOOSE x \in S : \A y \in S : x >= y

DropFirst(s, n) == SubSeq(s, n + 1, Len(s))
StartsWith(s, p) == Len(s) >= Len(p) /\ SubSeq(s, 1, Len(p)) = p
Contains(s, x) == \E i \in 1..Len(s) : s[i] = x

RECURSIVE Repeat(_, _)
Repeat(c, n) == IF n <= 0 THEN <<>> ELSE <<c>> \o Repeat(c, n - 1)

RECURSIVE Concat(_)
Concat(ss) == IF ss = <<>> THEN <<>> ELSE Head(ss) \o Concat(Tail(ss))

\* sep.join(ss)
RECURSIVE Join(_, _)
Join(ss, sep) ==
    IF ss = <<>> THEN <<>>
    ELSE IF Len(ss) = 1 THEN ss[1]
    ELSE ss[1] \o sep \o Join(Tail(ss), sep)

\* number of leading characters of s that satisfy "is c"
LeadingCount(s, c) ==
    LET other == {i \in 1..Len(s) : s[i] # c}
    IN  IF other = {} THEN Len(s) ELSE MinOf(other) - 1

IsWhite(c) == c = Space \/ c = NL

\* str.strip(): whitespace removed at both ends
Strip(s) ==
    LET keep == {i \in 1..Len(s) : ~IsWhite(s[i])}
    IN  IF keep = {} THEN <<>> ELSE SubSeq(s, MinOf(keep), MaxOf(keep))

\* str.rstrip("\n")
RStripNL(s) ==
    LET keep == {i \in 1..Len(s) : s[i] # NL}
    IN  IF keep = {} THEN <<>> ELSE SubSeq(s, 1, MaxOf(keep))

\* iteration over io.StringIO(text): the lines, each with its terminator
RECURSIVE FileLines(_)
FileLines(text) ==
    IF text = <<>> THEN <<>>
    ELSE LET nls == {i \in 1..Len(text) : text[i] = NL}
         IN  IF nls = {} THEN <<text>>
             ELSE <<SubSeq(text, 1, MinOf(nls))>> \o FileLines(DropFirst(text, MinOf(nls)))

---------------------------------------------------------------------------
\* The regular expressions

\* headline_regex.findall(s): "^(\*+) *(DONE|TODO)? *(.*)".  found is FALSE
\* for the empty result list; otherwise stars, keyword and title are the
\* three groups of the first match.
headline_regex(s) ==
    LET n == LeadingCount(s, Star)
        r1 == DropFirst(s, n)
        r2 == DropFirst(r1, LeadingCount(r1, Space))
        kw == IF StartsWith(r2, KwDONE) THEN KwDONE
              ELSE IF StartsWith(r2, KwTODO) THEN KwTODO ELSE <<>>
        r3 == DropFirst(r2, Len(kw))
        r4 == DropFirst(r3, LeadingCount(r3, Space))
    IN  [found |-> n > 0, stars |-> n, keyword |-> kw, title |-> r4]

\* spec_re.findall(s): "([^.]+): (.+)".  The first match starts at the
\* leftmost position from which a dot-free run reaches a ": " that is
\* followed by at least one character; the first group is greedy, so it
\* ends at the last such ": " of that run; the second group is the rest.
spec_re(s) ==
    LET ends == {k \in 1..(Len(s) - 3) :
                    s[k] # "." /\ s[k + 1] = ":" /\ s[k + 2] = " "}
        kmin == MinOf(ends)
        dots == {i \in 1..kmin : s[i] = "."}
        from == IF dots = {} THEN 1 ELSE MaxOf(dots) + 1
        kmax == MaxOf({k \in ends : \A i \in kmin..k : s[i] # "."})
    IN  IF ends = {} THEN [found |-> FALSE, key |-> <<>>, val |-> <<>>]
        ELSE [found |-> TRUE, key |-> SubSeq(s, from, kmax),
              val |-> DropFirst(s, kmax + 2)]

---------------------------------------------------------------------------
\* TasksTree

\* the title of the root node (title=None)
NoneTitle == <<"None">>
\* task_id=None
NoneId == 0
\* the arena index standing for Python's None where a node is expected
NoneNode == 0
\* the root node of an arena
Root == 1

\* TasksTree.__init__
TasksTree(title, task_id, task_notes, task_todo, task_completed) ==
    [title |-> title, task_id |-> task_id, subtasks |-> <<>>,
     notes |-> task_notes, todo |-> task_todo, completed |-> task_completed]

\* TasksTree(): a tree that holds the root only
EmptyTree == <<TasksTree(NoneTitle, NoneId, <<>>, FALSE, FALSE)>>

\* add_subtask as it would be if the new node were put in front of the others
add_subtask_Prepends(tree, self, title, task_notes, task_todo, task_completed) ==
    LET new == Len(tree) + 1
    IN  Append([tree EXCEPT ![self].subtasks = <<new>> \o @],
               TasksTree(title, NoneId, task_notes, task_todo, task_completed))

\* add_subtask as it would be if task_notes were not handed on to the node
add_subtask_DropsNotes(tree, self, title, task_notes, task_todo, task_completed) ==
    LET new == Len(tree) + 1
    IN  Append([tree EXCEPT ![self].subtasks = Append(@, new)],
               TasksTree(title, NoneId, <<>>, task_todo, task_completed))

\* self.add_subtask(...) with parent_id None, self being node `self` of
\* `tree`: the new node is appended to self.subtasks.  The new node is the
\* last node of the arena.
add_subtask(tree, self, title, task_notes, task_todo, task_completed) ==
    LET new == Len(tree) + 1
    IN  Append([tree EXCEPT ![self].subtasks = Append(@, new)],
               TasksTree(title, NoneId, task_notes, task_todo, task_completed))

\* self.get_task_with_id(task_id): depth-first search, NoneNode for None
RECURSIVE get_task_with_id(_, _, _)
get_task_with_id(tree, self, task_id) ==
    IF tree[self].task_id = task_id THEN self
    ELSE LET subs == tree[self].subtasks
             hits == {i \in 1..Len(subs) : get_task_with_id(tree, subs[i], task_id) # NoneNode}
         IN  IF hits = {} THEN NoneNode
             ELSE get_task_with_id(tree, subs[MinOf(hits)], task_id)

\* the error add_subtask raises when no node has the parent id
NoSuitableParent == "ValueError"

\* self.add_subtask(title, task_id, parent_id, ...) in full (lines 73-89):
\* [error, tree]
add_subtask_by_id(tree, self, title, task_id, parent_id, task_notes, task_todo, task_completed) ==
    LET new == Len(tree) + 1
        Under(node) == Append([tree EXCEPT ![node].subtasks = Append(@, new)],
                              TasksTree(title, task_id, task_notes, task_todo, task_completed))
        parent == get_task_with_id(tree, self, parent_id)
    IN  IF parent_id = NoneId THEN [error |-> "none", tree |-> Under(self)]
        ELSE IF parent = NoneNode THEN [error |-> NoSuitableParent, tree |-> tree]
        ELSE [error |-> "none", tree |-> Under(parent)]

\* last_task_node_at_level as it would be if the first hit were kept
RECURSIVE last_task_node_at_level_First(_, _, _)
last_task_node_at_level_First(tree, self, level) ==
    IF level = 0 THEN self
    ELSE LET subs == tree[self].subtasks
             hits == {i \in 1..Len(subs) :
                        last_task_node_at_level_First(tree, subs[i], level - 1) # NoneNode}
         IN  IF hits = {} THEN NoneNode
             ELSE last_task_node_at_level_First(tree, subs[MinOf(hits)], level - 1)

\* self.last_task_node_at_level(level): NoneNode when the loop finds nothing
RECURSIVE last_task_node_at_level(_, _, _)
last_task_node_at_level(tree, self, level) ==
    IF level = 0 THEN self
    ELSE LET subs == tree[self].subtasks
             hits == {i \in 1..Len(subs) :
                        last_task_node_at_level(tree, subs[i], level - 1) # NoneNode}
         IN  IF hits = {} THEN NoneNode
             ELSE last_task_node_at_level(tree, subs[MaxOf(hits)], level - 1)

\* the lines TasksTree._lines emits for one subtask: its headline, its
\* note lines (a space put before a leading '*'), then its own subtasks
RECURSIVE TreeLines(_, _, _)
HeadlineOf(node, level) ==
    Repeat(Star, level + 1) \o <<Space>>
    \o (IF node.completed THEN KwDONE \o <<Space>>
        ELSE IF node.todo THEN KwTODO \o <<Space>> ELSE <<>>)
    \o node.title
NoteLineOf(note_line, level) ==
    Repeat(Space, level + 2)
    \o (IF StartsWith(note_line, <<Star>>) THEN <<Space>> \o note_line ELSE note_line)
SubtaskLines(tree, sub, level) ==
    <<HeadlineOf(tree[sub], level)>>
    \o [i \in 1..Len(tree[sub].notes) |-> NoteLineOf(tree[sub].notes[i], level)]
    \o TreeLines(tree, sub, level + 1)

\* TasksTree._lines(level) of node `self`
TreeLines(tree, self, level) ==
    Concat([i \in 1..Len(tree[self].subtasks) |->
              SubtaskLines(tree, tree[self].subtasks[i], level)])

\* TasksTree.__str__
Str(tree) == Join(TreeLines(tree, Root, 0), <<NL>>) \o <<NL>>

---------------------------------------------------------------------------
\* parse_text_to_tree

\* the outcome of a call: error is "none" when the call returned `tree`,
\* else the name of the exception that left the function
Returned(tree) == [error |-> "none", tree |-> tree]
Raised(kind) == [error |-> kind, tree |-> <<>>]

\* the exception raised by last_task.notes / (...).add_subtask when the
\* object is None
NoneDereference == "AttributeError"

\* one iteration of "for line in f"; st = [tree, last_task, error]
ParseLine(st, line) ==
    LET matches == headline_regex(RStripNL(line))
        indent_level == matches.stars
        parent == last_task_node_at_level(st.tree, Root, indent_level - 1)
    IN  IF st.error # "none" THEN st
        ELSE IF matches.found
        THEN IF parent = NoneNode
             THEN [st EXCEPT !.error = NoneDereference]
             ELSE [st EXCEPT
                    !.tree = add_subtask(st.tree, parent, matches.title, <<>>,
                                         matches.keyword = KwDONE \/ matches.keyword = KwTODO,
                                         matches.keyword = KwDONE),
                    !.last_task = Len(st.tree) + 1]
        ELSE \* IndexError: a task-notes line
             IF st.last_task = NoneNode
             THEN [st EXCEPT !.error = NoneDereference]
             ELSE [st EXCEPT !.tree[st.last_task].notes = Append(@, Strip(line))]

RECURSIVE ParseLines(_, _)
ParseLines(st, lines) ==
    IF lines = <<>> THEN st ELSE ParseLines(ParseLine(st, Head(lines)), Tail(lines))

parse_text_to_tree(text) ==
    LET st == ParseLines([tree |-> EmptyTree, last_task |-> NoneNode, error |-> "none"],
                         FileLines(text))
    IN  IF st.error = "none" THEN Returned(st.tree) ELSE Raised(st.error)

\* A tree up to the arena's numbering: the nodes in depth-first order, each
\* with its depth and its own fields.  Two trees have the same structure,
\* child order, titles, notes and flags exactly when their Canon is equal.
RECURSIVE Canon(_, _, _)
Canon(tree, self, depth) ==
    <<[depth |-> depth, title |-> tree[self].title, notes |-> tree[self].notes,
       todo |-> tree[self].todo, completed |-> tree[self].completed]>>
    \o Concat([i \in 1..Len(tree[self].subtasks) |->
                 Canon(tree, tree[self].subtasks[i], depth + 1)])
SameTree(t1, t2) == Canon(t1, Root, 0) = Canon(t2, Root, 0)

---------------------------------------------------------------------------
\* PartTree and disassemble_tree

\* The identity of a PartTree object.  side is "org" or "remote" for the
\* units disassemble_tree makes (n: the position in depth-first order),
\* "created" for the PartTree objects the fourth step makes (n: the node),
\* "node" for a TasksTree node stored where a PartTree is expected, and
\* "none" for None.
UnitId(side, n) == [side |-> side, n |-> n]
NoUnit == UnitId("none", 0)

\* the loop over task.notes in PartTree.__init__; acc = [titles, notes]
PartTreeNote(acc, note_line) ==
    LET matches == spec_re(note_line)
    IN  IF matches.found /\ matches.key = PREV_ORG_TITLE
        THEN [acc EXCEPT !.titles = IF Contains(@, matches.val) THEN @
                                    ELSE Append(@, matches.val)]
        ELSE IF matches.found /\ matches.key = REMOTE_APPEND_NOTE
        THEN [acc EXCEPT !.notes = Append(@, matches.val)]
        ELSE [acc EXCEPT !.notes = Append(@, note_line)]

RECURSIVE PartTreeNotes(_, _)
PartTreeNotes(acc, note_lines) ==
    IF note_lines = <<>> THEN acc
    ELSE PartTreeNotes(PartTreeNote(acc, Head(note_lines)), Tail(note_lines))

RECURSIVE OrdSum(_)
OrdSum(str) == IF str = <<>> THEN 0 ELSE Ord(Head(str)) + OrdSum(Tail(str))

\* PartTree.__init__(parent, task): titles, notes and hash_sum are computed
\* once, from the node as it is at that moment
PartTree(uid, parent, node, task) ==
    LET scanned == PartTreeNotes(
                      [titles |-> IF node.title # NoneTitle THEN <<node.title>> ELSE <<>>,
                       notes |-> <<>>],
                      node.notes)
        notes == Join(scanned.notes, <<Space>>)
    IN  [uid |-> uid, parent |-> parent, task |-> task,
         titles |-> scanned.titles, notes |-> notes,
         hash_sum |-> OrdSum(Concat(scanned.titles)) + OrdSum(notes)]

\* disassemble_tree(tree, disassemblies, parent), called on node `self`
RECURSIVE disassemble_tree(_, _, _, _, _)
RECURSIVE DisassembleSubtasks(_, _, _, _, _)
DisassembleSubtasks(tree, side, subs, disassemblies, current) ==
    IF subs = <<>> THEN disassemblies
    ELSE DisassembleSubtasks(tree, side, Tail(subs),
            disassemble_tree(tree, side, Head(subs), disassemblies, current), current)
disassemble_tree(tree, side, self, disassemblies, parent) ==
    LET uid == UnitId(side, Len(disassemblies) + 1)
        current == PartTree(uid, parent, tree[self], self)
    IN  DisassembleSubtasks(tree, side, tree[self].subtasks,
                            Append(disassemblies, current), uid)

\* list.sort(key=lambda node: node.hash_sum): ascending, stable
SortByHashSum(units) ==
    LET n == Len(units)
        Before(i, j) == units[i].hash_sum < units[j].hash_sum
                        \/ (units[i].hash_sum = units[j].hash_sum /\ i < j)
        Rank(j) == Cardinality({i \in 1..n : Before(i, j)}) + 1
    IN  [p \in 1..n |-> units[CHOOSE j \in 1..n : Rank(j) = p]]

\* PartTree.is_equal
is_equal(self, another) ==
    IF Len(self.titles) = 0 /\ Len(another.titles) = 0 THEN TRUE
    ELSE (\E i \in 1..Len(self.titles) : \E j \in 1..Len(another.titles) :
              self.titles[i] = another.titles[j])
         /\ self.notes = another.notes

\* ---- difflib.SequenceMatcher(None, a, b), as PartTree.__calc_ratio uses it

\* length of the common run of a from i and b from j
RECURSIVE RunLen(_, _, _, _)
RunLen(a, b, i, j) ==
    IF i > Len(a) \/ j > Len(b) \/ a[i] # b[j] THEN 0
    ELSE 1 + RunLen(a, b, i + 1, j + 1)

\* SequenceMatcher.find_longest_match over all of a and b (no junk): the
\* longest block, the one starting earliest in a, then earliest in b;
\* size 0 when a and b share no character
find_longest_match(a, b) ==
    LET starts == {ij \in (1..Len(a)) \X (1..Len(b)) : a[ij[1]] = b[ij[2]]}
        size == MaxOf({RunLen(a, b, ij[1], ij[2]) : ij \in starts})
        best == {ij \in starts : RunLen(a, b, ij[1], ij[2]) = size}
        i == MinOf({ij[1] : ij \in best})
        j == MinOf({ij[2] : ij \in {x \in best : x[1] = i}})
    IN  IF starts = {} THEN [i |-> 0, j |-> 0, size |-> 0]
        ELSE [i |-> i, j |-> j, size |-> size]

\* The sum PartTree.__calc_ratio takes over get_opcodes(): the matching
\* blocks are found by find_longest_match, then to the left and to the
\* right of the block; a stretch without a match is 'delete' (b's part
\* empty: the length of a's part), 'insert' (a's part empty: nothing) or
\* 'replace' (the longer of the two parts).
RECURSIVE OpcodeCost(_, _)
OpcodeCost(a, b) ==
    IF Len(a) = 0 THEN 0
    ELSE IF Len(b) = 0 THEN Len(a)
    ELSE LET m == find_longest_match(a, b)
         IN  IF m.size = 0 THEN Max2(Len(a), Len(b))
             ELSE OpcodeCost(SubSeq(a, 1, m.i - 1), SubSeq(b, 1, m.j - 1))
                  + OpcodeCost(DropFirst(a, m.i + m.size - 1), DropFirst(b, m.j + m.size - 1))

\* Ratios are exact fractions [num, den], den > 0.  The code computes them
\* in binary floating point; for the string lengths of this model the
\* comparisons below give the same answers as the floating-point ones.
Frac(num, den) == [num |-> num, den |-> den]
FracGt(x, y) == x.num * y.den > y.num * x.den
FracEq(x, y) == x.num * y.den = y.num * x.den

\* PartTree.__calc_ratio(str1, str2)
StrRatio(str1, str2) ==
    IF Len(str1) = 0 /\ Len(str2) = 0 THEN Frac(1, 1)
    ELSE LET longest == Max2(Len(str1), Len(str2))
         IN  Frac(longest - OpcodeCost(str1, str2), longest)

\* PartTree.calc_ratio: 0.7 * (best title ratio) + 0.3 * (notes ratio)
calc_ratio(self, another) ==
    LET pairs == (1..Len(self.titles)) \X (1..Len(another.titles))
        TitleRatio(p) == StrRatio(self.titles[p[1]], another.titles[p[2]])
        top == CHOOSE p \in pairs : \A q \in pairs : ~FracGt(TitleRatio(q), TitleRatio(p))
        t == TitleRatio(top)
        n == StrRatio(self.notes, another.notes)
    IN  Frac(7 * t.num * n.den + 3 * n.num * t.den, 10 * t.den * n.den)

\* RATIO_THRESHOLD = 0.85
RATIO_THRESHOLD == Frac(85, 100)

---------------------------------------------------------------------------
\* treemerge, one action per loop iteration

\* the inner loop as it would be with >= in the place of >
RECURSIVE FuzzyScan_TakesLast(_, _, _, _, _)
FuzzyScan_TakesLast(remote_unit, units_org, index_org, best_index_org, best_ratio) ==
    IF index_org >= Len(units_org) THEN best_index_org
    ELSE LET ratio == calc_ratio(units_org[index_org + 1], remote_unit)
         IN  IF ~FracGt(best_ratio, ratio)
             THEN FuzzyScan_TakesLast(remote_unit, units_org, index_org + 1, index_org, ratio)
             ELSE FuzzyScan_TakesLast(remote_unit, units_org, index_org + 1,
                                      best_index_org, best_ratio)

\* the inner while loop of the second step, from index_org on (0-based):
\* the index of the best local unit, or -1 for None
RECURSIVE FuzzyScan(_, _, _, _, _)
FuzzyScan(remote_unit, units_org, index_org, best_index_org, best_ratio) ==
    IF index_org >= Len(units_org) THEN best_index_org
    ELSE LET ratio == calc_ratio(units_org[index_org + 1], remote_unit)
         IN  IF FracGt(ratio, best_ratio)
             THEN FuzzyScan(remote_unit, units_org, index_org + 1, index_org, ratio)
             ELSE FuzzyScan(remote_unit, units_org, index_org + 1, best_index_org, best_ratio)

\* list.pop(i) leaves the list without its element i (0-based)
Pop(list, i) == SubSeq(list, 1, i) \o SubSeq(list, i + 2, Len(list))

\* the flag as it would be if the remote value were assigned
MergeFlag_Overwrite(remote_flag, org_flag) == remote_flag

\* "Merge attributes": the todo / completed the local node gets
MergeFlag(remote_flag, org_flag) ==
    IF remote_flag = TRUE /\ org_flag # TRUE THEN TRUE ELSE org_flag

\* the title test as it would be if the remote title were looked up among
\* the local unit's titles
TitleGivesWay_ByLocalAliases(map_entry, remote_node, org_node) ==
    remote_node.title # org_node.title /\ ~Contains(map_entry[2].titles, remote_node.title)

\* the title test as it would be without the aliases
TitleGivesWay_IgnoresAliases(map_entry, remote_node, org_node) ==
    remote_node.title # org_node.title

\* "Merge contents", title (lines 287-288): whether the remote title
\* replaces the local one
TitleGivesWay(map_entry, remote_node, org_node) ==
    remote_node.title # org_node.title /\ ~Contains(map_entry[1].titles, org_node.title)

\* the loop as it would be if REMOTE_APPEND_NOTE lines were not unwrapped
RECURSIVE NotesDiff_KeepsWrapped(_, _)
NotesDiff_KeepsWrapped(remote_notes, org_notes) ==
    IF remote_notes = <<>> THEN <<>>
    ELSE LET note_line == Head(remote_notes)
             matches == spec_re(note_line)
             rest == NotesDiff_KeepsWrapped(Tail(remote_notes), org_notes)
         IN  IF matches.found /\ matches.key = PREV_ORG_TITLE THEN rest
             ELSE IF ~Contains(org_notes, note_line)
             THEN <<REMOTE_APPEND_NOTE \o ColonSpace \o note_line>> \o rest
             ELSE rest

\* "Merge contents", notes: the loop over the remote note lines
RECURSIVE NotesDiff(_, _)
NotesDiff(remote_notes, org_notes) ==
    IF remote_notes = <<>> THEN <<>>
    ELSE LET note_line == Head(remote_notes)
             matches == spec_re(note_line)
             rest == NotesDiff(Tail(remote_notes), org_notes)
             bare == IF matches.found /\ matches.key = REMOTE_APPEND_NOTE
                     THEN matches.val ELSE note_line
         IN  IF matches.found /\ matches.key = PREV_ORG_TITLE THEN rest
             ELSE IF ~Contains(org_notes, bare)
             THEN <<REMOTE_APPEND_NOTE \o ColonSpace \o bare>> \o rest
             ELSE rest

\* the third step as it would be without the test of line 292
PatchedNode_NoNotesTest(map_entry, remote_node, org_node) ==
    LET gives_way == TitleGivesWay(map_entry, remote_node, org_node)
        title_diff == IF gives_way
                      THEN <<PREV_ORG_TITLE \o ColonSpace \o org_node.title>> ELSE <<>>
        notes_diff == NotesDiff(remote_node.notes, org_node.notes)
    IN  [org_node EXCEPT
            !.todo = MergeFlag(remote_node.todo, @),
            !.completed = MergeFlag(remote_node.completed, @),
            !.title = IF gives_way THEN remote_node.title ELSE @,
            !.notes = @ \o title_diff \o notes_diff]

\* the third step for one map_entry (lines 278-304): the local node after it
PatchedNode(map_entry, remote_node, org_node) ==
    LET gives_way == TitleGivesWay(map_entry, remote_node, org_node)
        title_diff == IF gives_way
                      THEN <<PREV_ORG_TITLE \o ColonSpace \o org_node.title>> ELSE <<>>
        notes_diff == IF remote_node.notes # org_node.notes
                      THEN NotesDiff(remote_node.notes, org_node.notes) ELSE <<>>
    IN  [org_node EXCEPT
            !.todo = MergeFlag(remote_node.todo, @),
            !.completed = MergeFlag(remote_node.completed, @),
            !.title = IF gives_way THEN remote_node.title ELSE @,
            !.notes = @ \o title_diff \o notes_diff]

\* the search as it would be if it looked at the local side of the entries
ParentEntries_LocalSide(map, new_task) ==
    {k \in 1..Len(map) : map[k][2].uid = new_task.parent}

\* the fourth step's search: the positions of the mapping entries x with
\* x[0] == new_task.parent (PartTree defines no __eq__: identity)
ParentEntries(map, new_task) ==
    {k \in 1..Len(map) : map[k][1].uid = new_task.parent}

\* lines 229-241: both trees are taken apart and sorted
Disassemble ==
    /\ pc = "call"
    /\ tasks_org' = SortByHashSum(disassemble_tree(tree_org, "org", Root, <<>>, NoUnit))
    /\ tasks_remote' = SortByHashSum(disassemble_tree(tree_remote, "remote", Root, <<>>, NoUnit))
    /\ mapping' = <<>>
    /\ index_remote' = 0
    /\ pc' = "exact"
    /\ UNCHANGED <<org_text, remote_text, tree_org, tree_remote, step_i, shared_notes,
                   round, org_before, remote_before, org_after1, codec_vars, listing_vars, conf_vars>>

\* the first step as it would be if index_remote advanced after a pairing too
ExactStep_AdvancesAfterPair ==
    /\ pc = "exact"
    /\ index_remote < Len(tasks_remote)
    /\ LET remote_unit == tasks_remote[index_remote + 1]
           equal == {k \in 1..Len(tasks_org) : is_equal(remote_unit, tasks_org[k])}
       IN  IF equal # {}
           THEN /\ mapping' = Append(mapping, <<remote_unit, tasks_org[MinOf(equal)], TRUE>>)
                /\ tasks_remote' = Pop(tasks_remote, index_remote)
                /\ tasks_org' = Pop(tasks_org, MinOf(equal) - 1)
                /\ index_remote' = index_remote + 1
           ELSE /\ index_remote' = index_remote + 1
                /\ UNCHANGED <<mapping, tasks_remote, tasks_org>>
    /\ UNCHANGED <<org_text, remote_text, tree_org, tree_remote, step_i, shared_notes, pc,
                   round, org_before, remote_before, org_after1, codec_vars, listing_vars, conf_vars>>

\* lines 242-255: one iteration of the outer loop of the first step
ExactStep ==
    /\ pc = "exact"
    /\ index_remote < Len(tasks_remote)
    /\ LET remote_unit == tasks_remote[index_remote + 1]
           equal == {k \in 1..Len(tasks_org) : is_equal(remote_unit, tasks_org[k])}
       IN  IF equal # {}
           THEN /\ mapping' = Append(mapping, <<remote_unit, tasks_org[MinOf(equal)], TRUE>>)
                /\ tasks_remote' = Pop(tasks_remote, index_remote)
                /\ tasks_org' = Pop(tasks_org, MinOf(equal) - 1)
                /\ UNCHANGED index_remote
           ELSE /\ index_remote' = index_remote + 1
                /\ UNCHANGED <<mapping, tasks_remote, tasks_org>>
    /\ UNCHANGED <<org_text, remote_text, tree_org, tree_remote, step_i, shared_notes, pc,
                   round, org_before, remote_before, org_after1, codec_vars, listing_vars, conf_vars>>

\* the first loop ends; line 258
ExactDone ==
    /\ pc = "exact"
    /\ index_remote >= Len(tasks_remote)
    /\ index_remote' = 0
    /\ pc' = "fuzzy"
    /\ UNCHANGED <<org_text, remote_text, tree_org, tree_remote, tasks_org, tasks_remote,
                   mapping, step_i, shared_notes, round, org_before, remote_before,
                   org_after1, codec_vars, listing_vars, conf_vars>>

\* the second step as it would be if the local unit of a pair stayed in its list
FuzzyStep_KeepsLocal ==
    /\ pc = "fuzzy"
    /\ index_remote < Len(tasks_remote)
    /\ LET remote_unit == tasks_remote[index_remote + 1]
           best_index_org == FuzzyScan(remote_unit, tasks_org, 0, -1, RATIO_THRESHOLD)
       IN  IF best_index_org # -1
           THEN /\ mapping' = Append(mapping,
                                     <<remote_unit, tasks_org[best_index_org + 1], FALSE>>)
                /\ tasks_remote' = Pop(tasks_remote, index_remote)
                /\ UNCHANGED <<index_remote, tasks_org>>
           ELSE /\ index_remote' = index_remote + 1
                /\ UNCHANGED <<mapping, tasks_remote, tasks_org>>
    /\ UNCHANGED <<org_text, remote_text, tree_org, tree_remote, step_i, shared_notes, pc,
                   round, org_before, remote_before, org_after1, codec_vars, listing_vars, conf_vars>>

\* lines 259-274: one iteration of the outer loop of the second step
FuzzyStep ==
    /\ pc = "fuzzy"
    /\ index_remote < Len(tasks_remote)
    /\ LET remote_unit == tasks_remote[index_remote + 1]
           best_index_org == FuzzyScan(remote_unit, tasks_org, 0, -1, RATIO_THRESHOLD)
       IN  IF best_index_org # -1
           THEN /\ mapping' = Append(mapping,
                                     <<remote_unit, tasks_org[best_index_org + 1], FALSE>>)
                /\ tasks_remote' = Pop(tasks_remote, index_remote)
                /\ tasks_org' = Pop(tasks_org, best_index_org)
                /\ UNCHANGED index_remote
           ELSE /\ index_remote' = index_remote + 1
                /\ UNCHANGED <<mapping, tasks_remote, tasks_org>>
    /\ UNCHANGED <<org_text, remote_text, tree_org, tree_remote, step_i, shared_notes, pc,
                   round, org_before, remote_before, org_after1, codec_vars, listing_vars, conf_vars>>

\* the second loop ends; the third step starts
FuzzyDone ==
    /\ pc = "fuzzy"
    /\ index_remote >= Len(tasks_remote)
    /\ step_i' = 0
    /\ pc' = "patch"
    /\ UNCHANGED <<org_text, remote_text, tree_org, tree_remote, tasks_org, tasks_remote,
                   mapping, index_remote, shared_notes, round, org_before, remote_before,
                   org_after1, codec_vars, listing_vars, conf_vars>>

\* lines 277-304: one iteration of "for map_entry in mapping"
PatchStep ==
    /\ pc = "patch"
    /\ step_i < Len(mapping)
    /\ LET map_entry == mapping[step_i + 1]
       IN  tree_org' = [tree_org EXCEPT ![map_entry[2].task] =
                           PatchedNode(map_entry, tree_remote[map_entry[1].task], @)]
    /\ step_i' = step_i + 1
    /\ UNCHANGED <<org_text, remote_text, tree_remote, tasks_org, tasks_remote, mapping,
                   index_remote, shared_notes, pc, round, org_before, remote_before,
                   org_after1, codec_vars, listing_vars, conf_vars>>

\* the third loop ends; the fourth step starts
PatchDone ==
    /\ pc = "patch"
    /\ step_i >= Len(mapping)
    /\ step_i' = 0
    /\ pc' = "graft"
    /\ UNCHANGED <<org_text, remote_text, tree_org, tree_remote, tasks_org, tasks_remote,
                   mapping, index_remote, shared_notes, round, org_before, remote_before,
                   org_after1, codec_vars, listing_vars, conf_vars>>

\* lines 307-322: one iteration of "for i in range(len(tasks_remote))"
GraftStep ==
    /\ pc = "graft"
    /\ step_i < Len(tasks_remote)
    /\ LET new_task == tasks_remote[step_i + 1]
           found == ParentEntries(mapping, new_task)
           parent_task == IF found # {} THEN mapping[MinOf(found)][2].task ELSE Root
           remote1 == IF found # {} THEN tree_remote
                      ELSE [tree_remote EXCEPT ![new_task.task].notes =
                                                   Append(@, MERGE_INFO_LINE)]
           node == remote1[new_task.task]
           created == Len(tree_org) + 1
           org1 == add_subtask(tree_org, parent_task, node.title, node.notes,
                               node.todo, node.completed)
       IN  /\ tree_remote' = remote1
           /\ tree_org' = org1
           \* "task_notes or []": a non-empty list is stored as it is,
           \* the very object the remote node holds
           /\ shared_notes' = IF node.notes # <<>>
                              THEN shared_notes \cup {<<new_task.task, created>>}
                              ELSE shared_notes
           /\ mapping' = Append(mapping,
                  <<PartTree(UnitId("created", created), UnitId("node", parent_task),
                             org1[created], created),
                    new_task, TRUE>>)
    /\ step_i' = step_i + 1
    /\ UNCHANGED <<org_text, remote_text, tasks_org, tasks_remote, index_remote, pc,
                   round, org_before, remote_before, org_after1, codec_vars, listing_vars, conf_vars>>

\* the fourth loop ends: treemerge returns
GraftDone ==
    /\ pc = "graft"
    /\ step_i >= Len(tasks_remote)
    /\ pc' = "done"
    /\ org_after1' = IF round = 1 THEN tree_org ELSE org_after1
    /\ UNCHANGED <<org_text, remote_text, tree_org, tree_remote, tasks_org, tasks_remote,
                   mapping, index_remote, step_i, shared_notes, round, org_before,
                   remote_before, codec_vars, listing_vars, conf_vars>>

\* treemerge is called again on the merged local tree and a remote tree
\* built afresh from the same remote text
Remerge ==
    /\ pc = "done"
    /\ round = 1
    /\ round' = 2
    /\ tree_remote' = parse_text_to_tree(remote_text).tree
    /\ remote_before' = tree_remote'
    /\ org_before' = tree_org
    /\ tasks_org' = <<>>
    /\ tasks_remote' = <<>>
    /\ mapping' = <<>>
    /\ index_remote' = 0
    /\ step_i' = 0
    /\ shared_notes' = {}
    /\ pc' = "call"
    /\ UNCHANGED <<org_text, remote_text, tree_org, org_after1, codec_vars, listing_vars, conf_vars>>

---------------------------------------------------------------------------
\* The codec scenario: parse a text, print the tree, parse the print

CodecParse ==
    /\ codec_pc = "start"
    /\ codec_first' = parse_text_to_tree(codec_text)
    /\ codec_pc' = "parsed"
    /\ UNCHANGED <<codec_text, codec_out, codec_second, merge_vars, listing_vars, conf_vars>>

CodecPrint ==
    /\ codec_pc = "parsed"
    /\ codec_first.error = "none"
    /\ codec_out' = Str(codec_first.tree)
    /\ codec_pc' = "printed"
    /\ UNCHANGED <<codec_text, codec_first, codec_second, merge_vars, listing_vars, conf_vars>>

CodecReparse ==
    /\ codec_pc = "printed"
    /\ codec_second' = parse_text_to_tree(codec_out)
    /\ codec_pc' = "reparsed"
    /\ UNCHANGED <<codec_text, codec_first, codec_out, merge_vars, listing_vars, conf_vars>>

---------------------------------------------------------------------------
\* tasklist_to_tasktree, one action per loop iteration

\* the loop runs fail_count < 1000
MaxFailCount == 1000

\* the loop as it would be if an item that failed were not put back
ListingStep_DropsFailed ==
    /\ listing_pc = "loop"
    /\ tasklist # <<>> /\ fail_count < MaxFailCount
    /\ LET t == Head(tasklist)
           added == add_subtask_by_id(tasks_tree, Root, t.title, t.id, t.parent, <<>>,
                                      TRUE, t.status = "completed")
       IN  IF added.error = "none"
           THEN /\ tasks_tree' = added.tree
                /\ tasklist' = Tail(tasklist)
                /\ UNCHANGED fail_count
           ELSE /\ fail_count' = fail_count + 1
                /\ tasklist' = Tail(tasklist)
                /\ UNCHANGED tasks_tree
    /\ UNCHANGED <<listing_input, listing_pc, merge_vars, codec_vars, conf_vars>>

\* lines 462-474: one iteration of the while loop
ListingStep ==
    /\ listing_pc = "loop"
    /\ tasklist # <<>> /\ fail_count < MaxFailCount
    /\ LET t == Head(tasklist)
           added == add_subtask_by_id(tasks_tree, Root, t.title, t.id, t.parent, <<>>,
                                      TRUE, t.status = "completed")
       IN  IF added.error = "none"
           THEN /\ tasks_tree' = added.tree
                /\ tasklist' = Tail(tasklist)
                /\ UNCHANGED fail_count
           ELSE \* except ValueError
                /\ fail_count' = fail_count + 1
                /\ tasklist' = Append(Tail(tasklist), t)
                /\ UNCHANGED tasks_tree
    /\ UNCHANGED <<listing_input, listing_pc, merge_vars, codec_vars, conf_vars>>

\* the loop ends; line 476: return tasks_tree
ListingReturn ==
    /\ listing_pc = "loop"
    /\ ~(tasklist # <<>> /\ fail_count < MaxFailCount)
    /\ listing_pc' = "returned"
    /\ UNCHANGED <<listing_input, tasklist, tasks_tree, fail_count,
                   merge_vars, codec_vars, conf_vars>>

---------------------------------------------------------------------------
\* InteractiveMergeConf (mergeconf.py), the default answers

\* closed_time None; the recorded times are 1, 2, ...
NoneTime == 0

\* __merge_completed
merge_completed(remote, org) == remote.completed \/ org.completed

\* __merge_closed_time; current is what datetime.datetime.now() returns
merge_closed_time(remote, org, current) ==
    IF remote.completed
    THEN IF remote.closed_time # NoneTime /\ org.closed_time # NoneTime
         THEN IF org.closed_time < remote.closed_time
              THEN org.closed_time ELSE remote.closed_time
         ELSE IF remote.closed_time # NoneTime \/ org.closed_time # NoneTime
         THEN IF remote.closed_time # NoneTime THEN remote.closed_time ELSE org.closed_time
         ELSE current
    ELSE NoneTime

\* conf.merge_completed(task_remote, task_org) is called
MergeCompleted ==
    /\ conf_pc = "start"
    /\ conf_completed' = merge_completed(task_remote, task_org)
    /\ conf_pc' = "completed"
    /\ UNCHANGED <<task_remote, task_org, now, conf_closed,
                   merge_vars, codec_vars, listing_vars>>

\* conf.merge_closed_time(task_remote, task_org) is called
MergeClosedTime ==
    /\ conf_pc = "completed"
    /\ conf_closed' = merge_closed_time(task_remote, task_org, now)
    /\ conf_pc' = "closed"
    /\ UNCHANGED <<task_remote, task_org, now, conf_completed,
                   merge_vars, codec_vars, listing_vars>>

---------------------------------------------------------------------------
\* Inputs and specifications

\* the longest local / remote text of the merge scenario, in lines
MaxOrgLines == 2
MaxRemoteLines == 2
\* the longest texts of the repeated merge
MaxRemergeLines == 2
\* the longest text of the codec scenario, in lines
MaxCodecLines == 3

\* the longest local and remote text of the merges around the threshold
MaxFuzzyOrgLines == 3
MaxFuzzyRemoteLines == 2

TitleA == <<"a">>
TitleAB == <<"a", "b">>
TitleB == <<"b">>
NoteN == <<"n">>

\* the lines the texts of the merge scenario are made of
MergeLinePool ==
    { <<Star, Space>> \o TitleA,
      <<Star, Space>> \o TitleAB,
      <<Star, Star, Space>> \o TitleB,
      <<Star, Space>> \o KwTODO \o <<Space>> \o TitleA,
      <<Star, Space>> \o KwDONE \o <<Space>> \o TitleA,
      <<Space, Space>> \o NoteN,
      <<Space, Space>> \o PREV_ORG_TITLE \o ColonSpace \o TitleA,
      <<Space, Space>> \o REMOTE_APPEND_NOTE \o ColonSpace \o NoteN }

\* the lines the texts of the codec scenario are made of
CodecLinePool ==
    { <<Star, Space>> \o TitleA,
      <<Star, Star, Space>> \o TitleB,
      <<Star, Star, Star, Space>> \o TitleA,
      <<Star, Space>> \o KwTODO \o <<Space>> \o TitleA,
      <<Star, Space, Space>> \o KwDONE \o <<Space, Space>> \o TitleB,
      <<Star>> \o KwTODO \o TitleA,
      <<Star>>,
      NoteN,
      <<Space, Space, Star>> \o NoteN,
      <<>> }

Title4 == <<"a", "a", "a", "a">>
Title5 == <<"a", "a", "a", "a", "b">>
NoteNN == <<"n", "n">>

\* the lines of the merges around the threshold: the titles score 4/5 or 1
\* with each other, the notes 1/2 or 1
FuzzyLinePool ==
    { <<Star, Space>> \o Title4,
      <<Star, Space>> \o Title5,
      <<Space, Space>> \o NoteN,
      <<Space, Space>> \o NoteNN }

SeqsUpTo(S, n) == UNION {[1..k -> S] : k \in 0..n}

\* a text file of the given lines, each ended by a newline
TextOf(lines) == Concat([i \in 1..Len(lines) |-> lines[i] \o <<NL>>])

\* the texts parse_text_to_tree returns a tree for
Accepted(texts) == {t \in texts : parse_text_to_tree(t).error = "none"}

MergeTexts(n) == Accepted({TextOf(ls) : ls \in SeqsUpTo(MergeLinePool, n)})

CodecIdle ==
    /\ codec_text = <<>>
    /\ codec_pc = "idle"
    /\ codec_first = Raised("none")
    /\ codec_out = <<>>
    /\ codec_second = Raised("none")

ListingIdle ==
    /\ listing_input = <<>>
    /\ tasklist = <<>>
    /\ tasks_tree = <<>>
    /\ fail_count = 0
    /\ listing_pc = "idle"

ConfIdle ==
    /\ task_remote = [completed |-> FALSE, closed_time |-> NoneTime]
    /\ task_org = [completed |-> FALSE, closed_time |-> NoneTime]
    /\ now = NoneTime
    /\ conf_pc = "idle"
    /\ conf_completed = FALSE
    /\ conf_closed = NoneTime

MergeIdle ==
    /\ org_text = <<>>
    /\ remote_text = <<>>
    /\ tree_org = <<>>
    /\ tree_remote = <<>>
    /\ tasks_org = <<>>
    /\ tasks_remote = <<>>
    /\ mapping = <<>>
    /\ index_remote = 0
    /\ step_i = 0
    /\ shared_notes = {}
    /\ pc = "idle"
    /\ round = 0
    /\ org_before = <<>>
    /\ remote_before = <<>>
    /\ org_after1 = <<>>

\* both trees have been parsed, treemerge is about to be called
MergeStart(otext, rtext) ==
    /\ org_text = otext
    /\ remote_text = rtext
    /\ tree_org = parse_text_to_tree(otext).tree
    /\ tree_remote = parse_text_to_tree(rtext).tree
    /\ tasks_org = <<>>
    /\ tasks_remote = <<>>
    /\ mapping = <<>>
    /\ index_remote = 0
    /\ step_i = 0
    /\ shared_notes = {}
    /\ pc = "call"
    /\ round = 1
    /\ org_before = tree_org
    /\ remote_before = tree_remote
    /\ org_after1 = <<>>

Init ==
    /\ \E otext \in MergeTexts(MaxOrgLines), rtext \in MergeTexts(MaxRemoteLines) :
          MergeStart(otext, rtext)
    /\ CodecIdle
    /\ ListingIdle
    /\ ConfIdle

MergeNext ==
    \/ Disassemble
    \/ ExactStep
    \/ ExactDone
    \/ FuzzyStep
    \/ FuzzyDone
    \/ PatchStep
    \/ PatchDone
    \/ GraftStep
    \/ GraftDone

Next == MergeNext

Spec == Init /\ [][Next]_vars

\* line 259: the second step's loop goes on; either branch of an
\* iteration changes mapping or index_remote, so this is ENABLED <<FuzzyStep>>_vars
FuzzyStepEnabled == pc = "fuzzy" /\ index_remote < Len(tasks_remote)

\* WF_vars(FuzzyStep), with its enabling condition written out
FuzzyStepFair == []<>(~FuzzyStepEnabled) \/ []<><<FuzzyStep>>_vars

\* the two passes run on: treemerge is straight-line code of one thread,
\* none of its loops is suspended for ever
SpecFair ==
    Spec /\ WF_vars(ExactStep) /\ WF_vars(ExactDone) /\ FuzzyStepFair /\ WF_vars(FuzzyDone)

InitRemerge ==
    /\ \E otext \in MergeTexts(MaxRemergeLines), rtext \in MergeTexts(MaxRemergeLines) :
          MergeStart(otext, rtext)
    /\ CodecIdle
    /\ ListingIdle
    /\ ConfIdle

NextRemerge == MergeNext \/ Remerge

SpecRemerge == InitRemerge /\ [][NextRemerge]_vars

FuzzyTexts(n) == Accepted({TextOf(ls) : ls \in SeqsUpTo(FuzzyLinePool, n)})

InitFuzzy ==
    /\ \E otext \in FuzzyTexts(MaxFuzzyOrgLines), rtext \in FuzzyTexts(MaxFuzzyRemoteLines) :
          MergeStart(otext, rtext)
    /\ CodecIdle
    /\ ListingIdle
    /\ ConfIdle

SpecFuzzy == InitFuzzy /\ [][MergeNext]_vars

InitCodec ==
    /\ \E ls \in SeqsUpTo(CodecLinePool, MaxCodecLines), final_newline \in BOOLEAN :
          codec_text = IF final_newline \/ ls = <<>> THEN TextOf(ls)
                       ELSE SubSeq(TextOf(ls), 1, Len(TextOf(ls)) - 1)
    /\ codec_pc = "start"
    /\ codec_first = Raised("none")
    /\ codec_out = <<>>
    /\ codec_second = Raised("none")
    /\ MergeIdle
    /\ ListingIdle
    /\ ConfIdle

NextCodec ==
    \/ CodecParse
    \/ CodecPrint
    \/ CodecReparse

SpecCodec == InitCodec /\ [][NextCodec]_vars

\* the most items of a listing whose orders and parents are all tried
MaxItems == 3

\* an item of a listing: a task dictionary with title, id and parent (NoneId:
\* no 'parent' key) and without notes and status
Item(id, parent) ==
    [id |-> id, parent |-> parent, title |-> IF id = 1 THEN TitleA ELSE TitleB,
     status |-> "needsAction"]

\* the listings of n items with the ids 1..n, in every order, each parent
\* being absent (NoneId), one of the ids, or the id n + 1 that no item has
Listings(n) ==
    {[i \in 1..n |-> Item(order[i], parent[order[i]])] :
        order \in {f \in [1..n -> 1..n] : \A i, j \in 1..n : f[i] = f[j] => i = j},
        parent \in [1..n -> 0..(n + 1)]}

\* a parent listed behind as many of its children as the loop allows failures
LateParentListing ==
    [i \in 1..(MaxFailCount + 1) |->
        IF i <= MaxFailCount THEN Item(i + 1, 1) ELSE Item(1, NoneId)]

ListingStart(listing) ==
    /\ listing_input = listing
    /\ tasklist = listing
    /\ tasks_tree = EmptyTree
    /\ fail_count = 0
    /\ listing_pc = "loop"

InitListing ==
    /\ \E listing \in UNION {Listings(n) : n \in 0..MaxItems} \cup {LateParentListing} :
          ListingStart(listing)
    /\ MergeIdle
    /\ CodecIdle
    /\ ConfIdle

NextListing ==
    \/ ListingStep
    \/ ListingReturn

SpecListing == InitListing /\ [][NextListing]_vars

\* the longest listing of the calls that are followed to their return
MaxQueuedItems == 2

InitListingFair ==
    /\ \E listing \in UNION {Listings(n) : n \in 0..MaxQueuedItems} :
          ListingStart(listing)
    /\ MergeIdle
    /\ CodecIdle
    /\ ConfIdle

\* the call runs on: the loop is a plain while loop of one thread, which is
\* never suspended for ever
SpecListingFair == InitListingFair /\ [][NextListing]_vars /\ WF_vars(NextListing)

\* the latest time a task can have recorded, and the latest current time
MaxTime == 2
MaxNow == 4

InitConf ==
    /\ task_remote \in [completed : BOOLEAN, closed_time : 0..MaxTime]
    /\ task_org \in [completed : BOOLEAN, closed_time : 0..MaxTime]
    /\ now \in (MaxTime + 1)..MaxNow
    /\ conf_pc = "start"
    /\ conf_completed = FALSE
    /\ conf_closed = NoneTime
    /\ MergeIdle
    /\ CodecIdle
    /\ ListingIdle

NextConf ==
    \/ MergeCompleted
    \/ MergeClosedTime

SpecConf == InitConf /\ [][NextConf]_vars

---------------------------------------------------------------------------
\* Vocabulary of the properties

\* the positions of the pairs the exact and the fuzzy pass made (the pairs
\* the fourth step registers have a PartTree of its own making in front)
PassPairs == {k \in 1..Len(mapping) : mapping[k][1].uid.side = "remote"}

\* the local node the fourth step created for tasks_remote[i]: add_subtask
\* appends to the arena, one node per leftover remote unit, in order
CreatedFor(i) == Len(org_before) + i

\* the nodes of `tree` that hold node n among their subtasks
ParentsOf(tree, n) == {q \in 1..Len(tree) : Contains(tree[q].subtasks, n)}

\* the leftover remote unit's note lines were extended by the MERGE_INFO line
HasMergeInfo(i) ==
    tree_org[CreatedFor(i)].notes
        = Append(remote_before[tasks_remote[i].task].notes, MERGE_INFO_LINE)

\* the lines a node's notes gained since treemerge was called
AddedNotes(n) == DropFirst(tree_org[n].notes, Len(org_before[n].notes))

IsPrevOrgTitleLine(line) == StartsWith(line, PREV_ORG_TITLE \o ColonSpace)

---------------------------------------------------------------------------
\* Properties

\* C1 (as claimed): a second treemerge of the merged local tree against a
\* fresh copy of the same remote tree leaves the local tree as the first
\* call left it: same structure, titles, notes, todo and completed.
C1_RemergeChangesNothing ==
    (pc = "done" /\ round = 2) => SameTree(tree_org, org_after1)

\* C2: when the local and the remote tree are parsed from the same text,
\* every unit is paired in the exact pass, no unit is left over on either
\* side, the local tree is never changed, and str(local) is the
\* serialization of the parsed input.
C2_SelfMergeIsNoOp ==
    org_text = remote_text =>
        /\ tree_org = org_before
        /\ pc \in {"fuzzy", "patch", "graft", "done"} =>
              /\ tasks_remote = <<>>
              /\ tasks_org = <<>>
              /\ Len(mapping) = Len(org_before)
              /\ \A k \in 1..Len(mapping) : mapping[k][3] = TRUE
        /\ pc = "done" => Str(tree_org) = Str(parse_text_to_tree(org_text).tree)

\* C2's case: a self-merge has returned for a text that carries a
\* PREV_ORG_TITLE line
C2_Witness ==
    /\ pc = "done"
    /\ org_text = remote_text
    /\ \E n \in 1..Len(tree_org) : \E q \in 1..Len(tree_org[n].notes) :
          IsPrevOrgTitleLine(tree_org[n].notes[q])

\* C3 (as claimed): for every accepted text, parsing the printed tree
\* succeeds and yields the tree of the first parse.
C3_RoundTrip ==
    codec_pc = "reparsed" =>
        /\ codec_second.error = "none"
        /\ SameTree(codec_second.tree, codec_first.tree)

\* the error kind the tests expect of a rejected text
ParseErrorKind == "ValueError"

\* a line that is no headline comes before the first headline: the first
\* line of the text is no headline
NoteBeforeHeadline(text) ==
    /\ FileLines(text) # <<>>
    /\ ~headline_regex(RStripNL(FileLines(text)[1])).found

\* C4 (as claimed): a text with a non-headline line before its first
\* headline is rejected with the parse error kind and no tree is returned;
\* the empty text yields the tree without tasks.
C4_RejectsWithParseError ==
    codec_pc # "start" =>
        /\ NoteBeforeHeadline(codec_text) =>
              codec_first.error = ParseErrorKind /\ codec_first.tree = <<>>
        /\ codec_text = <<>> => codec_first = Returned(EmptyTree)

\* C5: when treemerge has returned, each leftover remote unit has one new
\* local node of its own, in the tree, with the unit's title, note lines,
\* todo and completed; where the search for its parent finds nothing the
\* node is a child of the root and its notes end with the MERGE_INFO line;
\* the local tree has grown by exactly the number of leftover units.
C5_NoRemoteDataLoss ==
    pc = "done" =>
        /\ Len(tree_org) = Len(org_before) + Len(tasks_remote)
        /\ \A i \in 1..Len(tasks_remote) :
              LET unit == tasks_remote[i]
                  was == remote_before[unit.task]
                  new == tree_org[CreatedFor(i)]
                  orphan == \A k \in 1..(Len(mapping) - Len(tasks_remote) + i - 1) :
                                mapping[k][1].uid # unit.parent
              IN  /\ Cardinality(ParentsOf(tree_org, CreatedFor(i))) = 1
                  /\ new.title = was.title
                  /\ new.todo = was.todo
                  /\ new.completed = was.completed
                  /\ new.notes = was.notes \/ HasMergeInfo(i)
                  /\ orphan => /\ ParentsOf(tree_org, CreatedFor(i)) = {Root}
                               /\ HasMergeInfo(i)

\* C5's case: a leftover remote unit whose parent was left over too has
\* been grafted
C5_Witness ==
    /\ pc = "done"
    /\ \E i \in 1..Len(tasks_remote) : \E j \in 1..Len(tasks_remote) :
          /\ tasks_remote[i].parent = tasks_remote[j].uid
          /\ HasMergeInfo(i)

\* C6 (as claimed): when a leftover remote unit C has the leftover unit P
\* as its parent, P is processed before C and C's node is a child of the
\* node created for P, without a MERGE_INFO line.
C6_GraftKeepsSubtree ==
    pc = "done" =>
        \A p \in 1..Len(tasks_remote) : \A c \in 1..Len(tasks_remote) :
            tasks_remote[c].parent = tasks_remote[p].uid =>
                /\ p < c
                /\ ParentsOf(tree_org, CreatedFor(c)) = {CreatedFor(p)}
                /\ ~HasMergeInfo(c)

\* C7: the two roots are the first pair of the exact pass; a leftover
\* remote unit whose parent was paired by a pass gets its node appended
\* to the children of the parent's local counterpart (behind the children
\* that were there and those created before it), with the remote unit's
\* title, notes, todo and completed and no MERGE_INFO line.
C7_GraftUnderMatchedParent ==
    /\ pc \in {"fuzzy", "patch", "graft", "done"} =>
          /\ Len(mapping) >= 1
          /\ mapping[1][1].task = Root /\ mapping[1][1].uid.side = "remote"
          /\ mapping[1][2].task = Root /\ mapping[1][2].uid.side = "org"
          /\ mapping[1][3] = TRUE
    /\ pc = "done" =>
          \A i \in 1..Len(tasks_remote) : \A k \in PassPairs :
              mapping[k][1].uid = tasks_remote[i].parent =>
                  LET parent == mapping[k][2].task
                      subs == tree_org[parent].subtasks
                      was == remote_before[tasks_remote[i].task]
                      new == tree_org[CreatedFor(i)]
                  IN  /\ ParentsOf(tree_org, CreatedFor(i)) = {parent}
                      /\ \A q \in 1..Len(subs) : \A q2 \in 1..Len(subs) :
                            (subs[q] = CreatedFor(i) /\ q2 > q) => subs[q2] > subs[q]
                      /\ \A q \in 1..Len(subs) :
                            subs[q] <= Len(org_before) => org_before[parent].subtasks[q] = subs[q]
                      /\ new.title = was.title
                      /\ new.notes = was.notes
                      /\ new.todo = was.todo
                      /\ new.completed = was.completed

\* C7's case: a new remote task under a parent paired by the fuzzy pass
\* has been grafted below the parent's local counterpart
C7_Witness ==
    /\ pc = "done"
    /\ \E i \in 1..Len(tasks_remote) : \E k \in PassPairs :
          /\ mapping[k][1].uid = tasks_remote[i].parent
          /\ mapping[k][3] = FALSE
          /\ ParentsOf(tree_org, CreatedFor(i)) = {mapping[k][2].task}

\* C8: a local node that was todo (completed) when treemerge was called
\* stays so at every step; once the third step is over, the local node of
\* every pair the passes made is todo (completed) exactly if it or its
\* remote counterpart was.
C8_FlagsOnlyEscalate ==
    /\ \A n \in 1..Len(org_before) :
          /\ org_before[n].todo => tree_org[n].todo
          /\ org_before[n].completed => tree_org[n].completed
    /\ pc \in {"graft", "done"} =>
          \A k \in PassPairs :
              LET l == mapping[k][2].task
                  r == mapping[k][1].task
              IN  /\ tree_org[l].todo = (org_before[l].todo \/ remote_before[r].todo)
                  /\ tree_org[l].completed
                        = (org_before[l].completed \/ remote_before[r].completed)

\* C8's case: in one merge a completed local node met a remote node that
\* is not completed, and a local node that was not todo met a todo one
C8_Witness ==
    /\ pc = "done"
    /\ \E k \in PassPairs :
          /\ org_before[mapping[k][2].task].completed
          /\ ~remote_before[mapping[k][1].task].completed
    /\ \E k \in PassPairs :
          /\ ~org_before[mapping[k][2].task].todo
          /\ remote_before[mapping[k][1].task].todo
          /\ tree_org[mapping[k][2].task].todo

\* the title rule has been applied to pair k: the local title is the
\* remote one and the first line added to the local notes records the old
\* local title
TitleTaken(k) ==
    LET l == mapping[k][2].task
    IN  /\ tree_org[l].title = remote_before[mapping[k][1].task].title
        /\ AddedNotes(l) # <<>>
        /\ AddedNotes(l)[1] = PREV_ORG_TITLE \o ColonSpace \o org_before[l].title

\* C9 (as claimed): for a pair with different titles, the remote title
\* replaces the local one (and PREV_ORG_TITLE records the old one) when
\* the remote title is not among the local unit's titles; when it is one
\* of the local unit's aliases, the local title and notes stay as they are.
C9_TitleRuleByLocalAliases ==
    pc = "done" =>
        \A k \in PassPairs :
            LET l == mapping[k][2].task
                remote_title == remote_before[mapping[k][1].task].title
            IN  remote_title # org_before[l].title =>
                    IF ~Contains(mapping[k][2].titles, remote_title)
                    THEN TitleTaken(k)
                    ELSE /\ tree_org[l].title = org_before[l].title
                         /\ tree_org[l].notes = org_before[l].notes

\* C9 (amended): for a pair with different titles, the remote title
\* replaces the local one (and PREV_ORG_TITLE records the old one) when
\* the local title is not among the remote unit's titles; when it is one
\* of the remote unit's aliases, the local title stays and no
\* PREV_ORG_TITLE line is added.
C9_TitleRuleByRemoteAliases ==
    pc = "done" =>
        \A k \in PassPairs :
            LET l == mapping[k][2].task
                remote_title == remote_before[mapping[k][1].task].title
            IN  remote_title # org_before[l].title =>
                    IF ~Contains(mapping[k][1].titles, org_before[l].title)
                    THEN TitleTaken(k)
                    ELSE /\ tree_org[l].title = org_before[l].title
                         /\ \A q \in 1..Len(AddedNotes(l)) :
                               ~IsPrevOrgTitleLine(AddedNotes(l)[q])

\* C9's case: a pair with different titles, the local title unknown to
\* the remote unit, has been patched while the remote title was one of the
\* local unit's aliases
C9_Witness ==
    /\ pc = "done"
    /\ \E k \in PassPairs :
          /\ remote_before[mapping[k][1].task].title # org_before[mapping[k][2].task].title
          /\ ~Contains(mapping[k][1].titles, org_before[mapping[k][2].task].title)
          /\ Contains(mapping[k][2].titles, remote_before[mapping[k][1].task].title)
          /\ TitleTaken(k)

\* C10: for a pair whose local title is among the remote unit's titles
\* (the remote title or a PREV_ORG_TITLE alias of the remote node), the
\* local node keeps its title and gains no PREV_ORG_TITLE line.
C10_LocalTitleKnownToRemote ==
    pc = "done" =>
        \A k \in PassPairs :
            LET l == mapping[k][2].task
            IN  Contains(mapping[k][1].titles, org_before[l].title) =>
                    /\ tree_org[l].title = org_before[l].title
                    /\ ~\E q \in 1..Len(AddedNotes(l)) : IsPrevOrgTitleLine(AddedNotes(l)[q])

\* C10's case: remote "ab" carrying "PREV_ORG_TITLE: a" has been paired
\* with local "a", which is still titled "a"
C10_Witness ==
    /\ pc = "done"
    /\ \E k \in PassPairs :
          /\ remote_before[mapping[k][1].task].title = TitleAB
          /\ Contains(remote_before[mapping[k][1].task].notes,
                      PREV_ORG_TITLE \o ColonSpace \o TitleA)
          /\ org_before[mapping[k][2].task].title = TitleA
          /\ tree_org[mapping[k][2].task].title = TitleA

\* a note line without its REMOTE_APPEND_NOTE wrapper
BareLine(line) ==
    IF StartsWith(line, REMOTE_APPEND_NOTE \o ColonSpace)
    THEN DropFirst(line, Len(REMOTE_APPEND_NOTE) + 2) ELSE line

\* the remote note lines the notes rule asks for, wrapped, in remote order
RECURSIVE WantedLines(_, _)
WantedLines(remote_notes, org_notes) ==
    IF remote_notes = <<>> THEN <<>>
    ELSE LET line == Head(remote_notes)
             rest == WantedLines(Tail(remote_notes), org_notes)
         IN  IF ~IsPrevOrgTitleLine(line) /\ ~Contains(org_notes, BareLine(line))
             THEN <<REMOTE_APPEND_NOTE \o ColonSpace \o BareLine(line)>> \o rest
             ELSE rest

\* the PREV_ORG_TITLE line of pair k's title change, if the title changed
TitleLine(k) ==
    LET l == mapping[k][2].task
    IN  IF tree_org[l].title # org_before[l].title
        THEN <<PREV_ORG_TITLE \o ColonSpace \o org_before[l].title>> ELSE <<>>

ExactPairs == {k \in PassPairs : mapping[k][3] = TRUE}

\* the local units in the order disassemble_tree lists them (depth first)
UnitsOrgBefore == disassemble_tree(org_before, "org", Root, <<>>, NoUnit)

\* the local units not yet paired when pair k was made
UnpairedBefore(k) ==
    {q \in 1..Len(UnitsOrgBefore) :
        \A j \in 1..(k - 1) : mapping[j][2].uid # UnitsOrgBefore[q].uid}

\* C12 (as claimed): the exact pass makes its pairs in the depth-first
\* order of the remote units, and the local unit of each pair is, among
\* the local units not yet paired that are is_equal to the remote unit,
\* the first in the depth-first order of the local tree.
C12_ExactPassInTreeOrder ==
    \A k \in ExactPairs :
        /\ \A j \in ExactPairs : j < k => mapping[j][1].uid.n < mapping[k][1].uid.n
        /\ \A q \in UnpairedBefore(k) :
              is_equal(mapping[k][1], UnitsOrgBefore[q]) => mapping[k][2].uid.n <= q

\* C13: the remote units the exact pass has gone past are is_equal to no
\* local unit still unpaired; once the exact pass is over no leftover
\* remote unit is is_equal to a leftover local unit, and no pair of the
\* fuzzy pass is a pair of equal units.
C13_EqualUnitsPairExactly ==
    /\ pc = "exact" =>
          \A i \in 1..Len(tasks_remote) : \A j \in 1..Len(tasks_org) :
              i <= index_remote => ~is_equal(tasks_remote[i], tasks_org[j])
    /\ pc \in {"fuzzy", "patch", "graft", "done"} =>
          /\ \A i \in 1..Len(tasks_remote) : \A j \in 1..Len(tasks_org) :
                ~is_equal(tasks_remote[i], tasks_org[j])
          /\ \A k \in PassPairs :
                mapping[k][3] = FALSE => ~is_equal(mapping[k][1], mapping[k][2])

\* C13's case: the exact pass is over and has paired a remote unit with
\* its equal although another local unit, not equal to it, scores the
\* full similarity with it
C13_Witness ==
    /\ pc = "fuzzy"
    /\ \E k \in ExactPairs : \E q \in 2..Len(UnitsOrgBefore) :
          /\ mapping[k][1].titles # <<>>
          /\ ~is_equal(mapping[k][1], UnitsOrgBefore[q])
          /\ FracEq(calc_ratio(UnitsOrgBefore[q], mapping[k][1]), Frac(1, 1))

\* the positions of the pairs of the fuzzy pass
FuzzyPairs == {k \in PassPairs : mapping[k][3] = FALSE}

\* the place of the local unit with depth-first number n in tasks_org as
\* the first step found it
ListPlace(n) ==
    LET sorted == SortByHashSum(UnitsOrgBefore)
    IN  CHOOSE p \in 1..Len(sorted) : sorted[p].uid.n = n

\* C14: every pair of the fuzzy pass scores more than 0.85; no local unit
\* unpaired at that moment scores more with the remote unit, and none that
\* scores as much comes before the chosen one in the list; a remote unit
\* the fuzzy pass has left behind scores more than 0.85 with no local unit
\* that is left.
C14_FuzzyThresholdAndChoice ==
    /\ \A k \in FuzzyPairs :
          LET chosen == calc_ratio(mapping[k][2], mapping[k][1])
          IN  /\ FracGt(chosen, RATIO_THRESHOLD)
              /\ \A q \in UnpairedBefore(k) :
                    LET other == calc_ratio(UnitsOrgBefore[q], mapping[k][1])
                    IN  /\ ~FracGt(other, chosen)
                        /\ FracEq(other, chosen) =>
                              ListPlace(mapping[k][2].uid.n) <= ListPlace(q)
    /\ pc \in {"fuzzy", "patch", "graft", "done"} =>
          \A i \in 1..Len(tasks_remote) : \A j \in 1..Len(tasks_org) :
              (pc = "fuzzy" => i <= index_remote) =>
                  ~FracGt(calc_ratio(tasks_org[j], tasks_remote[i]), RATIO_THRESHOLD)

\* C14's case: the fuzzy pass has paired a remote unit with the local unit
\* of the highest score although a local unit earlier in the list scored
\* more than 0.85 too
C14_Witness ==
    /\ pc = "done"
    /\ \E k \in FuzzyPairs : \E q \in UnpairedBefore(k) :
          /\ ListPlace(q) < ListPlace(mapping[k][2].uid.n)
          /\ FracGt(calc_ratio(UnitsOrgBefore[q], mapping[k][1]), RATIO_THRESHOLD)
          /\ FracGt(calc_ratio(mapping[k][2], mapping[k][1]),
                    calc_ratio(UnitsOrgBefore[q], mapping[k][1]))

\* the local nodes of the units no pass has paired
LeftoverOrgNodes == {tasks_org[j].task : j \in 1..Len(tasks_org)}

\* the local nodes the passes have paired
PairedOrgNodes == {mapping[k][2].task : k \in PassPairs}

\* C15: at every step of treemerge each node the local tree had is still
\* there with its old children first and in their old order, whatever has
\* been added behind them being nodes treemerge created, and only below
\* the root or a paired local node; once the passes are over, the node of
\* every leftover local unit is exactly as it was.
C15_LocalFrame ==
    /\ Len(tree_org) >= Len(org_before)
    /\ \A n \in 1..Len(org_before) :
          LET old == org_before[n].subtasks
              new == tree_org[n].subtasks
          IN  /\ Len(new) >= Len(old)
              /\ SubSeq(new, 1, Len(old)) = old
              /\ \A q \in (Len(old) + 1)..Len(new) : new[q] > Len(org_before)
              /\ Len(new) > Len(old) => n \in PairedOrgNodes
    /\ pc \in {"patch", "graft", "done"} =>
          \A n \in LeftoverOrgNodes : tree_org[n] = org_before[n]

\* C15's case: treemerge has returned, having grafted a node and having
\* left a local unit with a child of its own unpaired
C15_Witness ==
    /\ pc = "done"
    /\ Len(tree_org) > Len(org_before)
    /\ \E n \in LeftoverOrgNodes : org_before[n].subtasks # <<>>

\* C16 (as claimed): at every step of treemerge the remote tree is as it
\* was when treemerge was called, and no remote node and local node hold
\* one and the same list of note lines.
C16_RemoteFrame ==
    /\ tree_remote = remote_before
    /\ shared_notes = {}

\* the ids of a listing's items
IdsOf(listing) == {listing[i].id : i \in 1..Len(listing)}

\* the declared parent of the item with the given id
DeclaredParent(listing, id) ==
    (CHOOSE item \in {listing[i] : i \in 1..Len(listing)} : item.id = id).parent

\* following the parent links from id ends at an item without parent
\* within the given number of steps
RECURSIVE ClimbsToTop(_, _, _)
ClimbsToTop(listing, id, steps) ==
    IF id = NoneId THEN TRUE
    ELSE IF steps = 0 \/ id \notin IdsOf(listing) THEN FALSE
    ELSE ClimbsToTop(listing, DeclaredParent(listing, id), steps - 1)

\* distinct ids, every declared parent the id of an item, no cycle
Resolvable(listing) ==
    /\ Cardinality(IdsOf(listing)) = Len(listing)
    /\ \A i \in 1..Len(listing) :
          /\ listing[i].parent \in IdsOf(listing) \cup {NoneId}
          /\ ClimbsToTop(listing, DeclaredParent(listing, listing[i].id), Len(listing))

\* the nodes of the returned tree that carry the given id
NodesWithId(id) == {n \in 1..Len(tasks_tree) : tasks_tree[n].task_id = id}

\* C17 (as claimed): when tasklist_to_tasktree has returned for a
\* resolvable listing, the tree holds one node per item and no other but
\* the root, and the node of each item is a child of the node with the
\* item's declared parent id (of the root when it declares none).
C17_OutOfOrderListings ==
    (listing_pc = "returned" /\ Resolvable(listing_input)) =>
        /\ Len(tasks_tree) = Len(listing_input) + 1
        /\ \A i \in 1..Len(listing_input) :
              /\ Cardinality(NodesWithId(listing_input[i].id)) = 1
              /\ \A n \in NodesWithId(listing_input[i].id) :
                    /\ Cardinality(ParentsOf(tasks_tree, n)) = 1
                    /\ \A q \in ParentsOf(tasks_tree, n) :
                          tasks_tree[q].task_id = listing_input[i].parent

\* C18 (as claimed): tasklist_to_tasktree never returns a tree for a
\* listing that is not resolvable.
C18_UnresolvableIsFatal ==
    listing_pc = "returned" => Resolvable(listing_input)

\* C19 (as claimed): whatever the completed flags, merge_closed_time
\* returns the earlier time when both tasks recorded one, the recorded
\* time when one of them did, and the current time when neither did and
\* the task is completed on either side.
C19_ClosedTimeResolution ==
    conf_pc = "closed" =>
        LET r == task_remote.closed_time
            o == task_org.closed_time
        IN  /\ (r # NoneTime /\ o # NoneTime) => conf_closed = IF o < r THEN o ELSE r
            /\ (r # NoneTime /\ o = NoneTime) => conf_closed = r
            /\ (r = NoneTime /\ o # NoneTime) => conf_closed = o
            /\ (r = NoneTime /\ o = NoneTime
                  /\ (task_remote.completed \/ task_org.completed)) => conf_closed = now

\* the level of node n: the root has level 0, a subtask one more than the
\* node that holds it
RECURSIVE LevelOf(_, _)
LevelOf(tree, n) ==
    IF n = Root THEN 0
    ELSE 1 + LevelOf(tree, CHOOSE q \in 1..Len(tree) : Contains(tree[q].subtasks, n))

\* the node of the given level added last (nodes are numbered as they are
\* added), NoneNode when the tree has none
MostRecentAtLevel(tree, level) ==
    LET at == {n \in 1..Len(tree) : LevelOf(tree, n) = level}
    IN  IF at = {} THEN NoneNode ELSE MaxOf(at)

\* the state of parse_text_to_tree after the first k lines of the text
ParsedUpTo(text, k) ==
    ParseLines([tree |-> EmptyTree, last_task |-> NoneNode, error |-> "none"],
               SubSeq(FileLines(text), 1, k))

\* C20: before and after every line parse_text_to_tree reads without an
\* error, last_task_node_at_level(k) is the node of level k added last;
\* a headline with d markers adds one node, as the last child of the node
\* of level d - 1 added last; any other line adds its stripped text to the
\* notes of the node added last and changes nothing else.
C20_ParserAttachment ==
    codec_pc # "start" =>
        \A k \in 0..(Len(FileLines(codec_text)) - 1) :
            LET st == ParsedUpTo(codec_text, k)
                line == FileLines(codec_text)[k + 1]
                after == ParsedUpTo(codec_text, k + 1)
                matches == headline_regex(RStripNL(line))
                target == MostRecentAtLevel(st.tree, matches.stars - 1)
                new == Len(st.tree) + 1
            IN  after.error = "none" =>
                    /\ \A level \in 0..(Len(after.tree) + 1) :
                          last_task_node_at_level(after.tree, Root, level)
                              = MostRecentAtLevel(after.tree, level)
                    /\ IF matches.found
                       THEN /\ Len(after.tree) = new
                            /\ target # NoneNode
                            /\ after.tree[target].subtasks
                                  = Append(st.tree[target].subtasks, new)
                            /\ \A n \in 1..Len(st.tree) :
                                  n # target => after.tree[n] = st.tree[n]
                            /\ after.tree[new].title = matches.title
                            /\ after.tree[new].notes = <<>>
                       ELSE /\ Len(st.tree) >= 2
                            /\ after.tree = [st.tree EXCEPT ![Len(st.tree)].notes =
                                                Append(@, Strip(line))]

\* C20's case: a text has been parsed in which a headline became the
\* child of the later one of two headlines of one level
C20_Witness ==
    /\ codec_pc = "parsed"
    /\ codec_first.error = "none"
    /\ \E q \in 2..Len(codec_first.tree) : \E earlier \in 2..(q - 1) :
          /\ LevelOf(codec_first.tree, earlier) = LevelOf(codec_first.tree, q)
          /\ codec_first.tree[q].subtasks # <<>>

\* the ids of the items the tree holds
PlacedIds == {tasks_tree[n].task_id : n \in 2..Len(tasks_tree)}

\* what is left of the loop at most: the items pending and the failures
\* the counter still allows
LoopBudget == Len(tasklist) + (MaxFailCount - fail_count)

\* C21: the failure counter never exceeds 1000; at every moment each item
\* of the listing is either pending or placed in the tree, never both;
\* every iteration either places the first pending item and shortens the
\* queue by one, or puts it back at the end and adds one to the counter;
\* and the call returns.
C21_ListingTerminates ==
    /\ [](listing_pc # "idle" =>
            /\ fail_count \in 0..MaxFailCount
            /\ IdsOf(tasklist) \cup PlacedIds = IdsOf(listing_input)
            /\ IdsOf(tasklist) \cap PlacedIds = {}
            /\ Len(tasklist) + Cardinality(PlacedIds) = Len(listing_input))
    /\ [][listing_pc = "loop" =>
            \/ /\ listing_pc' = "loop"
               /\ tasklist' = Tail(tasklist)
               /\ PlacedIds' = PlacedIds \cup {Head(tasklist).id}
               /\ fail_count' = fail_count
               /\ LoopBudget' = LoopBudget - 1
            \/ /\ listing_pc' = "loop"
               /\ tasklist' = Append(Tail(tasklist), Head(tasklist))
               /\ tasks_tree' = tasks_tree
               /\ fail_count' = fail_count + 1
               /\ LoopBudget' = LoopBudget - 1
            \/ /\ listing_pc' = "returned"
               /\ (tasklist = <<>> \/ fail_count = MaxFailCount)
               /\ UNCHANGED <<tasklist, tasks_tree, fail_count>>]_vars
    /\ <>(listing_pc = "returned")

\* C21's case: the call has returned for a listing with a parent reference
\* that cannot be resolved, after 1000 failures, with one item placed and
\* the others still pending
C21_Witness ==
    /\ listing_pc = "returned"
    /\ ~Resolvable(listing_input)
    /\ fail_count = MaxFailCount
    /\ PlacedIds # {}
    /\ tasklist # <<>>

\* the remote units in the order disassemble_tree lists them (depth first)
UnitsRemoteBefore == disassemble_tree(remote_before, "remote", Root, <<>>, NoUnit)

\* how often a unit is in a residual list
TimesIn(list, uid) == Cardinality({i \in 1..Len(list) : list[i].uid = uid})

\* how often a unit is on side s (1 remote, 2 local) of a pair
TimesPaired(s, uid) == Cardinality({k \in 1..Len(mapping) : mapping[k][s].uid = uid})

\* the two passes
InPasses == pc \in {"exact", "fuzzy"}

\* what is left of a pass at most: the remote units behind the scan index
PassBudget == Len(tasks_remote) - index_remote

\* C22: at every step of the exact and the fuzzy pass each remote unit is
\* either once in the remote residual list or once on the remote side of
\* one pair, each local unit either once in the local residual list or
\* once on the local side of one pair, and the lists and pairs hold no
\* other unit; every iteration either takes one remote unit out of the
\* residual list or advances the scan index by one, so that the units
\* behind the index become fewer; and both passes end.
C22_MatchingIsPartialBijection ==
    /\ [](InPasses =>
            /\ \A u \in 1..Len(UnitsRemoteBefore) :
                  TimesIn(tasks_remote, UnitsRemoteBefore[u].uid)
                    + TimesPaired(1, UnitsRemoteBefore[u].uid) = 1
            /\ \A u \in 1..Len(UnitsOrgBefore) :
                  TimesIn(tasks_org, UnitsOrgBefore[u].uid)
                    + TimesPaired(2, UnitsOrgBefore[u].uid) = 1
            /\ Len(tasks_remote) + Len(mapping) = Len(UnitsRemoteBefore)
            /\ Len(tasks_org) + Len(mapping) = Len(UnitsOrgBefore)
            /\ PassBudget >= 0)
    /\ [][InPasses /\ pc' = pc =>
            /\ \/ /\ Len(tasks_remote') = Len(tasks_remote) - 1
                  /\ Len(mapping') = Len(mapping) + 1
                  /\ index_remote' = index_remote
               \/ /\ tasks_remote' = tasks_remote
                  /\ mapping' = mapping
                  /\ index_remote' = index_remote + 1
            /\ PassBudget' = PassBudget - 1]_vars
    /\ (pc = "exact") ~> (pc = "fuzzy")
    /\ (pc = "fuzzy") ~> (pc = "patch")

\* C22's case: the fuzzy pass has ended with a pair of the exact pass, a
\* pair of the fuzzy pass and a unit left over
C22_Witness ==
    /\ pc = "fuzzy"
    /\ index_remote >= Len(tasks_remote)
    /\ ExactPairs # {}
    /\ FuzzyPairs # {}
    /\ Len(tasks_remote) + Len(tasks_org) > 0

===========================================================================
